---------------------------- MODULE Spec2Model ----------------------------
(***************************************************************************)
(* Model of src/n2.c (CURHELL2.C, "Hello, world!" ncurses style, in        *)
(* colour).  main() is a straight-line program with one branch on the      *)
(* result of initscr(), one branch on the colour capability and one while  *)
(* loop.  Every statement of main() is one action; pc names the statement  *)
(* that runs next.  The curses library is modelled by what each call does  *)
(* to the terminal mode, to the window stdscr, to the colour pair table    *)
(* and to the screen buffer.  The calls are modelled as the program treats *)
(* them: it never looks at a return value, and the screen is large enough  *)
(* for the rows and columns the program addresses.                         *)
(***************************************************************************)
EXTENDS Integers, Sequences, FiniteSets, TLC

(***************************************************************************)
(* Bounds of the model.                                                    *)
(***************************************************************************)
MaxColorPairs == 15     \* COLOR_PAIRS ranges over 0..MaxColorPairs
MaxRow == 20            \* the screen buffer has rows 0..MaxRow
MaxCol == 47            \* the screen buffer has columns 0..MaxCol

(***************************************************************************)
(* Constants of the program.                                               *)
(***************************************************************************)
EXIT_SUCCESS == 0
EXIT_FAILURE == 1
BaseRow == 6
Col == 32
NumPairs == 13
PauseSeconds == 3

COLOR_BLACK == "black"
COLOR_RED == "red"
COLOR_GREEN == "green"
COLOR_YELLOW == "yellow"
COLOR_BLUE == "blue"
COLOR_MAGENTA == "magenta"
COLOR_CYAN == "cyan"
COLOR_WHITE == "white"

\* the string literal " Hello, world! ", one element per character
Message ==
  <<" ", "H", "e", "l", "l", "o", ",", " ", "w", "o", "r", "l", "d", "!", " ">>

\* the line written to stderr (without its newline)
ErrorLine == "Error initialising ncurses."


\* mutant of InitPairCalls: the colours of pairs 7 and 8 are exchanged
InitPairCallsMut ==
  << <<1,  COLOR_RED,     COLOR_BLACK>>,
     <<2,  COLOR_GREEN,   COLOR_BLACK>>,
     <<3,  COLOR_YELLOW,  COLOR_BLACK>>,
     <<4,  COLOR_BLUE,    COLOR_BLACK>>,
     <<5,  COLOR_MAGENTA, COLOR_BLACK>>,
     <<6,  COLOR_CYAN,    COLOR_BLACK>>,
     <<7,  COLOR_WHITE,   COLOR_RED>>,
     <<8,  COLOR_BLUE,    COLOR_WHITE>>,
     <<9,  COLOR_BLACK,   COLOR_GREEN>>,
     <<10, COLOR_BLUE,    COLOR_YELLOW>>,
     <<11, COLOR_WHITE,   COLOR_BLUE>>,
     <<12, COLOR_WHITE,   COLOR_MAGENTA>>,
     <<13, COLOR_BLACK,   COLOR_CYAN>> >>

\* the 13 init_pair statements, in program order: <<pair, foreground, background>>
InitPairCalls ==
  << <<1,  COLOR_RED,     COLOR_BLACK>>,
     <<2,  COLOR_GREEN,   COLOR_BLACK>>,
     <<3,  COLOR_YELLOW,  COLOR_BLACK>>,
     <<4,  COLOR_BLUE,    COLOR_BLACK>>,
     <<5,  COLOR_MAGENTA, COLOR_BLACK>>,
     <<6,  COLOR_CYAN,    COLOR_BLACK>>,
     <<7,  COLOR_BLUE,    COLOR_WHITE>>,
     <<8,  COLOR_WHITE,   COLOR_RED>>,
     <<9,  COLOR_BLACK,   COLOR_GREEN>>,
     <<10, COLOR_BLUE,    COLOR_YELLOW>>,
     <<11, COLOR_WHITE,   COLOR_BLUE>>,
     <<12, COLOR_WHITE,   COLOR_MAGENTA>>,
     <<13, COLOR_BLACK,   COLOR_CYAN>> >>

\* status of a process killed by SIGSEGV, as a shell reports it
AbnormalStatus == 128 + 11

VARIABLES
  pc,           \* the statement of main() that runs next
  mainwin,      \* the local WINDOW * mainwin: "uninit", "NULL" or "stdscr"
  n,            \* the local int n of the colour branch
  ip,           \* which of the 13 init_pair statements runs next
  mode,         \* terminal mode: "shell" (as before initscr) or "visual"
  win,          \* the window stdscr: "none", "live" or "deleted"
  has_colors,   \* what has_colors() returns
  COLOR_PAIRS,  \* the library global COLOR_PAIRS
  pairs,        \* the colour pair table: pair number -> <<fg, bg>>
  cur_pair,     \* the colour pair selected on stdscr
  screen,       \* the buffer of stdscr: <<row, col>> -> cell
  display,      \* what the physical terminal shows after the last flush
  slept,        \* seconds spent in sleep()
  stderr,       \* lines written to the error stream
  exit_status,  \* exit status of the process, -1 while it runs
  ops           \* history of the library calls made, in order

vars == <<pc, mainwin, n, ip, mode, win, has_colors, COLOR_PAIRS, pairs,
          cur_pair, screen, display, slept, stderr, exit_status, ops>>

Cells == (0..MaxRow) \X (0..MaxCol)
Blank == [ch |-> " ", pair |-> 0]
BlankScreen == [p \in Cells |-> Blank]

\* one entry of the call history: the call, its arguments, and the state of
\* the session and of stdscr when the call is made
Call(op, arg) ==
  [op |-> op, arg |-> arg, mode |-> mode, win |-> win, pair |-> cur_pair]

Log(op, arg) == ops' = Append(ops, Call(op, arg))

\* mvaddstr(y, x, str) on stdscr: move, then write str with the selected pair
MvAddStr(scr, y, x, str, pair) ==
  [p \in DOMAIN scr |->
     IF p[1] = y /\ p[2] >= x /\ p[2] < x + Len(str)
       THEN [ch |-> str[p[2] - x + 1], pair |-> pair]
       ELSE scr[p]]


\* mutant of InitPair: foreground and background are stored the wrong way round
InitPairMut(tab, k, fg, bg) ==
  [q \in (DOMAIN tab) \cup {k} |-> IF q = k THEN <<bg, fg>> ELSE tab[q]]

\* init_pair(k, fg, bg) on the pair table
InitPair(tab, k, fg, bg) ==
  [q \in (DOMAIN tab) \cup {k} |-> IF q = k THEN <<fg, bg>> ELSE tab[q]]


\* mutant of ColourBranch: the pair count is compared one too low
ColourBranchMut(hc, cp) == hc /\ cp >= NumPairs - 1

\* the condition of the colour branch
ColourBranch(hc, cp) == hc /\ cp >= NumPairs

Init ==
  /\ pc = "initscr"
  /\ mainwin = "uninit"
  /\ n = 0
  /\ ip = 1
  /\ mode = "shell"
  /\ win = "none"
  /\ has_colors = FALSE
  /\ COLOR_PAIRS = 0
  /\ pairs = <<>>
  /\ cur_pair = 0
  /\ screen = BlankScreen
  /\ display = BlankScreen
  /\ slept = 0
  /\ stderr = <<>>
  /\ exit_status = -1
  /\ ops = <<>>

\* line 26: mainwin = initscr(), and the test against NULL
InitScr ==
  /\ pc = "initscr"
  /\ \E ok \in BOOLEAN :
       IF ok
         THEN /\ mainwin' = "stdscr"
              /\ mode' = "visual"
              /\ win' = "live"
              /\ \E hc \in BOOLEAN : has_colors' = hc
              /\ pc' = "start_color"
         ELSE /\ mainwin' = "NULL"
              /\ UNCHANGED <<mode, win, has_colors>>
              /\ pc' = "fprintf"
  /\ Log("initscr", <<>>)
  /\ UNCHANGED <<n, ip, COLOR_PAIRS, pairs, cur_pair, screen, display,
                 slept, stderr, exit_status>>

\* line 27: fprintf(stderr, ...)
PrintError ==
  /\ pc = "fprintf"
  /\ stderr' = Append(stderr, ErrorLine)
  /\ pc' = "exit"
  /\ UNCHANGED <<mainwin, n, ip, mode, win, has_colors, COLOR_PAIRS, pairs,
                 cur_pair, screen, display, slept, exit_status, ops>>


\* mutant of ExitFailure: the failure path exits with EXIT_SUCCESS
ExitFailureMut ==
  /\ pc = "exit"
  /\ exit_status' = EXIT_SUCCESS
  /\ pc' = "exited"
  /\ UNCHANGED <<mainwin, n, ip, mode, win, has_colors, COLOR_PAIRS, pairs,
                 cur_pair, screen, display, slept, stderr, ops>>

\* line 28: exit(EXIT_FAILURE)
ExitFailure ==
  /\ pc = "exit"
  /\ exit_status' = EXIT_FAILURE
  /\ pc' = "exited"
  /\ UNCHANGED <<mainwin, n, ip, mode, win, has_colors, COLOR_PAIRS, pairs,
                 cur_pair, screen, display, slept, stderr, ops>>

\* line 31: start_color(), which sets COLOR_PAIRS
StartColor ==
  /\ pc = "start_color"
  /\ \E cp \in 0..MaxColorPairs : COLOR_PAIRS' = cp
  /\ Log("start_color", <<>>)
  /\ pc' = "mvaddstr"
  /\ UNCHANGED <<mainwin, n, ip, mode, win, has_colors, pairs, cur_pair,
                 screen, display, slept, stderr, exit_status>>


\* mutant of MvAddStrBase: the base greeting is written one column to the right
MvAddStrBaseMut ==
  /\ pc = "mvaddstr"
  /\ screen' = MvAddStr(screen, BaseRow, Col + 1, Message, cur_pair)
  /\ Log("mvaddstr", <<BaseRow, Col + 1, Message>>)
  /\ pc' = "if"
  /\ UNCHANGED <<mainwin, n, ip, mode, win, has_colors, COLOR_PAIRS, pairs,
                 cur_pair, display, slept, stderr, exit_status>>

\* line 36: mvaddstr(6, 32, " Hello, world! ")
MvAddStrBase ==
  /\ pc = "mvaddstr"
  /\ screen' = MvAddStr(screen, BaseRow, Col, Message, cur_pair)
  /\ Log("mvaddstr", <<BaseRow, Col, Message>>)
  /\ pc' = "if"
  /\ UNCHANGED <<mainwin, n, ip, mode, win, has_colors, COLOR_PAIRS, pairs,
                 cur_pair, display, slept, stderr, exit_status>>

\* lines 45-47: if ( has_colors() && COLOR_PAIRS >= 13 ) { int n = 1;
IfColours ==
  /\ pc = "if"
  /\ IF ColourBranch(has_colors, COLOR_PAIRS)
       THEN /\ n' = 1
            /\ pc' = "init_pair"
       ELSE /\ n' = n
            /\ pc' = "refresh"
  /\ UNCHANGED <<mainwin, ip, mode, win, has_colors, COLOR_PAIRS, pairs,
                 cur_pair, screen, display, slept, stderr, exit_status, ops>>

\* lines 56-68: the ip-th init_pair statement
InitPairStmt ==
  /\ pc = "init_pair"
  /\ LET c == InitPairCalls[ip] IN
       /\ pairs' = InitPair(pairs, c[1], c[2], c[3])
       /\ Log("init_pair", c)
  /\ IF ip < Len(InitPairCalls)
       THEN /\ ip' = ip + 1
            /\ pc' = "init_pair"
       ELSE /\ ip' = ip
            /\ pc' = "while"
  /\ UNCHANGED <<mainwin, n, mode, win, has_colors, COLOR_PAIRS, cur_pair,
                 screen, display, slept, stderr, exit_status>>


\* mutant of WhileTest: the loop runs one iteration too many
WhileTestMut ==
  /\ pc = "while"
  /\ pc' = IF n <= NumPairs + 1 THEN "color_set" ELSE "refresh"
  /\ UNCHANGED <<mainwin, n, ip, mode, win, has_colors, COLOR_PAIRS, pairs,
                 cur_pair, screen, display, slept, stderr, exit_status, ops>>

\* line 73: while ( n <= 13 )
WhileTest ==
  /\ pc = "while"
  /\ pc' = IF n <= NumPairs THEN "color_set" ELSE "refresh"
  /\ UNCHANGED <<mainwin, n, ip, mode, win, has_colors, COLOR_PAIRS, pairs,
                 cur_pair, screen, display, slept, stderr, exit_status, ops>>

\* line 74: color_set(n, NULL)
ColorSet ==
  /\ pc = "color_set"
  /\ cur_pair' = n
  /\ Log("color_set", <<n>>)
  /\ pc' = "mvaddstr_n"
  /\ UNCHANGED <<mainwin, n, ip, mode, win, has_colors, COLOR_PAIRS, pairs,
                 screen, display, slept, stderr, exit_status>>

\* line 75: mvaddstr(6 + n, 32, " Hello, world! ")
MvAddStrColour ==
  /\ pc = "mvaddstr_n"
  /\ screen' = MvAddStr(screen, BaseRow + n, Col, Message, cur_pair)
  /\ Log("mvaddstr", <<BaseRow + n, Col, Message>>)
  /\ pc' = "n++"
  /\ UNCHANGED <<mainwin, n, ip, mode, win, has_colors, COLOR_PAIRS, pairs,
                 cur_pair, display, slept, stderr, exit_status>>

\* line 76: n++
IncrementN ==
  /\ pc = "n++"
  /\ n' = n + 1
  /\ pc' = "while"
  /\ UNCHANGED <<mainwin, ip, mode, win, has_colors, COLOR_PAIRS, pairs,
                 cur_pair, screen, display, slept, stderr, exit_status, ops>>

\* line 84: refresh(), the buffer of stdscr goes to the terminal
Refresh ==
  /\ pc = "refresh"
  /\ display' = screen
  /\ Log("refresh", <<>>)
  /\ pc' = "sleep"
  /\ UNCHANGED <<mainwin, n, ip, mode, win, has_colors, COLOR_PAIRS, pairs,
                 cur_pair, screen, slept, stderr, exit_status>>


\* mutant of Sleep: the pause is left out
SleepMut ==
  /\ pc = "sleep"
  /\ pc' = "delwin"
  /\ UNCHANGED <<mainwin, n, ip, mode, win, has_colors, COLOR_PAIRS, pairs,
                 cur_pair, screen, display, slept, stderr, exit_status, ops>>

\* line 85: sleep(3)
Sleep ==
  /\ pc = "sleep"
  /\ slept' = slept + PauseSeconds
  /\ Log("sleep", <<PauseSeconds>>)
  /\ pc' = "delwin"
  /\ UNCHANGED <<mainwin, n, ip, mode, win, has_colors, COLOR_PAIRS, pairs,
                 cur_pair, screen, display, stderr, exit_status>>

\* line 90: delwin(mainwin); mainwin is stdscr
DelWin ==
  /\ pc = "delwin"
  /\ win' = "deleted"
  /\ Log("delwin", <<mainwin>>)
  /\ pc' = "endwin"
  /\ UNCHANGED <<mainwin, n, ip, mode, has_colors, COLOR_PAIRS, pairs,
                 cur_pair, screen, display, slept, stderr, exit_status>>

\* line 91: endwin(), the terminal goes back to shell mode
EndWin ==
  /\ pc = "endwin"
  /\ mode' = "shell"
  /\ Log("endwin", <<>>)
  /\ pc' = "refresh2"
  /\ UNCHANGED <<mainwin, n, ip, win, has_colors, COLOR_PAIRS, pairs,
                 cur_pair, screen, display, slept, stderr, exit_status>>

\* line 92: refresh() after endwin(), on the window that delwin() deleted.
\* A library that cleared stdscr in delwin() returns ERR and does nothing
\* (ncurses); one that left stdscr pointing at the freed window reads freed
\* memory: the refresh either goes through, which puts the terminal back in
\* visual mode, or the process is killed.
RefreshAfterEndwin ==
  /\ pc = "refresh2"
  /\ Log("refresh", <<>>)
  /\ \E outcome \in {"ERR", "resumed", "killed"} :
       CASE outcome = "ERR" ->
              /\ pc' = "return"
              /\ UNCHANGED <<mode, display, exit_status>>
         [] outcome = "resumed" ->
              /\ mode' = "visual"
              /\ display' = screen
              /\ pc' = "return"
              /\ UNCHANGED exit_status
         [] outcome = "killed" ->
              /\ exit_status' = AbnormalStatus
              /\ pc' = "exited"
              /\ UNCHANGED <<mode, display>>
  /\ UNCHANGED <<mainwin, n, ip, win, has_colors, COLOR_PAIRS, pairs,
                 cur_pair, screen, slept, stderr>>

\* line 94: return EXIT_SUCCESS
Return ==
  /\ pc = "return"
  /\ exit_status' = EXIT_SUCCESS
  /\ pc' = "exited"
  /\ UNCHANGED <<mainwin, n, ip, mode, win, has_colors, COLOR_PAIRS, pairs,
                 cur_pair, screen, display, slept, stderr, ops>>

Next ==
  \/ InitScr
  \/ PrintError
  \/ ExitFailure
  \/ StartColor
  \/ MvAddStrBase
  \/ IfColours
  \/ InitPairStmt
  \/ WhileTest
  \/ ColorSet
  \/ MvAddStrColour
  \/ IncrementN
  \/ Refresh
  \/ Sleep
  \/ DelWin
  \/ EndWin
  \/ RefreshAfterEndwin
  \/ Return

Spec == Init /\ [][Next]_vars

(***************************************************************************)
(* Vocabulary of the properties.  The literals below are the ones the      *)
(* specification states; they are written out here and not taken from the  *)
(* definitions above.                                                      *)
(***************************************************************************)
OpsNamed(name) == {i \in 1..Len(ops) : ops[i].op = name}
Draws == OpsNamed("mvaddstr")
Flushes == OpsNamed("refresh")
Flushed == Flushes # {}
InitSucceeded == mainwin = "stdscr"
InitFailed == mainwin = "NULL"
Ended == pc \in {"return", "exited"}
TerminalOps ==
  {"start_color", "mvaddstr", "init_pair", "color_set", "refresh", "delwin",
   "endwin"}
DrawingOps == {"start_color", "mvaddstr", "init_pair", "color_set", "refresh"}

Greeting ==
  <<" ", "H", "e", "l", "l", "o", ",", " ", "w", "o", "r", "l", "d", "!", " ">>

PairTable ==
  << <<"red", "black">>, <<"green", "black">>, <<"yellow", "black">>,
     <<"blue", "black">>, <<"magenta", "black">>, <<"cyan", "black">>,
     <<"blue", "white">>, <<"white", "red">>, <<"black", "green">>,
     <<"blue", "yellow">>, <<"white", "blue">>, <<"white", "magenta">>,
     <<"black", "cyan">> >>

\* row `row` of scr shows the greeting from column 32 on, drawn with `pair`
RowShows(scr, row, pair) ==
  \A k \in 1..15 : scr[<<row, 32 + k - 1>>] = [ch |-> Greeting[k], pair |-> pair]

RowBlank(scr, row) == \A c \in 0..MaxCol : scr[<<row, c>>] = Blank

\* the colour branch is taken: has_colors() is true and COLOR_PAIRS >= 13
Capable == has_colors /\ COLOR_PAIRS >= 13

(***************************************************************************)
(* C1  Failure path: when initscr() fails, no drawing or terminal          *)
(* operation is ever performed, the error stream receives exactly the one  *)
(* line "Error initialising ncurses.", and the process ends with a         *)
(* non-zero exit status.                                                   *)
(***************************************************************************)
C1_FailurePath ==
  InitFailed =>
    /\ \A i \in 1..Len(ops) : ops[i].op \notin TerminalOps
    /\ mode = "shell" /\ win = "none" /\ screen = BlankScreen
    /\ Len(stderr) <= 1
    /\ pc = "exit" => stderr = <<"Error initialising ncurses.">>
    /\ pc = "exited" =>
         /\ stderr = <<"Error initialising ncurses.">>
         /\ exit_status > 0

C1_Witness == InitFailed /\ pc = "exited" /\ Len(stderr) = 1

C3_SessionState ==
  /\ \A i \in 1..Len(ops) :
       ops[i].op \in DrawingOps => ops[i].mode = "visual" /\ ops[i].win = "live"
  /\ \A i \in OpsNamed("endwin") : ops[i].mode = "visual"
  /\ Cardinality(OpsNamed("endwin")) <= 1

(***************************************************************************)
(* C4  Base render: when initscr() succeeded, whatever has_colors() and    *)
(* COLOR_PAIRS are, the greeting is at row 6, column 32 of the terminal    *)
(* once the screen is flushed, and no later draw touches row 6: row 6 is   *)
(* drawn exactly once and keeps the greeting in the default pair.          *)
(***************************************************************************)
C4_BaseRender ==
  InitSucceeded =>
    LET base == {i \in Draws : ops[i].arg[1] = 6} IN
      /\ Cardinality(base) <= 1
      /\ base # {} => RowShows(screen, 6, 0)
      /\ Flushed => base # {} /\ RowShows(display, 6, 0)

C4_Witness ==
  /\ InitSucceeded /\ Flushed /\ pc = "return"
  /\ Cardinality(Draws) = 14

(***************************************************************************)
(* C5  Colour gating: when has_colors() is false or COLOR_PAIRS < 13,      *)
(* nothing is ever written to rows 7..19, init_pair and color_set are      *)
(* never called, row 6 is the only row with content at flush time, nothing *)
(* is reported as an error, and the run goes on to the flush, the pause    *)
(* and the teardown.                                                       *)
(***************************************************************************)
C5_ColourGating ==
  (InitSucceeded /\ OpsNamed("start_color") # {} /\ ~Capable) =>
    /\ \A i \in Draws : ops[i].arg[1] \notin 7..19
    /\ OpsNamed("init_pair") = {} /\ OpsNamed("color_set") = {}
    /\ \A r \in 7..19 : RowBlank(screen, r)
    /\ Flushed =>
         /\ RowShows(display, 6, 0)
         /\ \A r \in 0..MaxRow : r # 6 => RowBlank(display, r)
    /\ stderr = <<>>
    /\ Ended =>
         /\ Flushed /\ slept = 3
         /\ OpsNamed("delwin") # {} /\ OpsNamed("endwin") # {}

C5_Witness ==
  /\ InitSucceeded /\ pc = "return"
  /\ has_colors /\ COLOR_PAIRS = 12

(***************************************************************************)
(* C6 as stated: if has_colors() is true, then at flush time rows 7..19    *)
(* all show the greeting at column 32, row 6+k drawn with pair k, and pair *)
(* k is the k-th entry of the table.                                       *)
(***************************************************************************)
C6_AsStated ==
  (Flushed /\ has_colors) =>
    \A k \in 1..13 :
      /\ RowShows(display, 6 + k, k)
      /\ \E i \in Draws : ops[i].arg[1] = 6 + k /\ ops[i].pair = k
      /\ pairs[k] = PairTable[k]

(***************************************************************************)
(* C6 amended: if has_colors() is true and COLOR_PAIRS >= 13, then at      *)
(* flush time rows 7..19 all show the greeting at column 32, row 6+k was   *)
(* drawn with pair k selected, and pair k is the k-th entry of the table.  *)
(***************************************************************************)
C6_ColourCompleteness ==
  (Flushed /\ has_colors /\ COLOR_PAIRS >= 13) =>
    \A k \in 1..13 :
      /\ RowShows(display, 6 + k, k)
      /\ \E i \in Draws : ops[i].arg[1] = 6 + k /\ ops[i].pair = k
      /\ pairs[k] = PairTable[k]

C6_Witness == Flushed /\ has_colors /\ COLOR_PAIRS = 13 /\ pc = "sleep"

(***************************************************************************)
(* C7  Present ordering: on a successful run every draw (the base one and, *)
(* in the colour branch, all 13 coloured ones) comes before the flush, the *)
(* pause comes after the flush, delwin and endwin come after the pause,    *)
(* and no draw comes after the flush.                                      *)
(***************************************************************************)
C7_PresentOrdering ==
  InitSucceeded =>
    LET S == OpsNamed("sleep")
        T == OpsNamed("delwin") \cup OpsNamed("endwin")
    IN
      /\ \A r \in Flushes : \A d \in Draws : d < r
      /\ Flushed => Cardinality(Draws) = IF Capable THEN 14 ELSE 1
      /\ \A s \in S : (\E r \in Flushes : r < s) /\ ops[s].arg = <<3>>
      /\ \A t \in T : \E s \in S : s < t
      /\ \A t \in OpsNamed("endwin") : \E d \in OpsNamed("delwin") : d < t
      /\ Ended =>
           /\ Flushed /\ Cardinality(S) = 1 /\ slept = 3
           /\ OpsNamed("delwin") # {} /\ OpsNamed("endwin") # {}

C7_Witness ==
  /\ InitSucceeded /\ pc = "return" /\ Capable
  /\ Cardinality(Draws) = 14

(***************************************************************************)
(* C8  Colour pair table: pairs are defined only when has_colors() is true *)
(* and COLOR_PAIRS >= 13; each index 1..13 is defined exactly once; all 13 *)
(* are defined before the first color_set; no init_pair follows a          *)
(* color_set; every color_set(k) has k in 1..13 and names a pair that is   *)
(* already defined, and from then on the table is the fixed one.           *)
(***************************************************************************)
C8_PairTable ==
  LET I == OpsNamed("init_pair")
      CS == OpsNamed("color_set")
  IN
    /\ (I # {} \/ DOMAIN pairs # {}) => Capable
    /\ \A i \in I : ops[i].arg[1] \in 1..13
    /\ \A i, j \in I : ops[i].arg[1] = ops[j].arg[1] => i = j
    /\ DOMAIN pairs = {ops[i].arg[1] : i \in I}
    /\ \A c \in CS :
         /\ ops[c].arg[1] \in 1..13
         /\ \A i \in I : i < c
         /\ \A k \in 1..13 : \E i \in I : ops[i].arg[1] = k
    /\ CS # {} =>
         /\ DOMAIN pairs = 1..13
         /\ \A k \in 1..13 : pairs[k] = PairTable[k]

C8_Witness ==
  /\ pc = "return"
  /\ Cardinality(OpsNamed("color_set")) = 13
  /\ Cardinality(OpsNamed("init_pair")) = 13

C10_Frame ==
  /\ \A i \in Draws :
       /\ ops[i].arg[3] = Greeting /\ Len(ops[i].arg[3]) = 15
       /\ ops[i].arg[2] = 32
       /\ ops[i].arg[1] \in 6..19
  /\ \A i, j \in Draws : i < j => ops[i].arg[1] < ops[j].arg[1]
  /\ \A p \in Cells :
       (p[1] \notin 6..19 \/ p[2] \notin 32..46) =>
         screen[p] = Blank /\ display[p] = Blank
  /\ \A p \in Cells :
       screen[p] # Blank => \E i \in Draws : ops[i].arg[1] = p[1]
  /\ \A i \in Draws :
       ops[i].arg[1] = 6 =>
         /\ ops[i].pair = 0
         /\ \A c \in OpsNamed("color_set") : i < c

C10_Witness ==
  /\ pc = "return"
  /\ {ops[i].arg[1] : i \in Draws} = 6..19

=============================================================================
